---- MODULE Spec2Model ----
(***************************************************************************)
(* A model of app.py, the Dash application "Understanding Radiation        *)
(* Exposure and Risk": the reference dose table, the three dose-response   *)
(* curves evaluated at import time over numpy.linspace(0, 100, 100), and   *)
(* the personal dose calculator (two sliders and the update_dose callback).*)
(*                                                                         *)
(* Python floats and numpy float64 are IEEE-754 binary64.  They are        *)
(* modelled bit-exactly: a float is a sign, a 53-bit significand and a     *)
(* binary exponent, and every arithmetic operation rounds to nearest,      *)
(* ties to even, as the hardware does.  Significands do not fit TLC's      *)
(* 32-bit integers, so they are kept as little-endian sequences of 15-bit  *)
(* limbs.  All values of the program lie far inside the normal range, so   *)
(* subnormals, infinities and NaN are not modelled.                        *)
(***************************************************************************)
EXTENDS Integers, Sequences, FiniteSets, TLC

(***************************************************************************)
(* Natural numbers of arbitrary size: little-endian limbs, no leading zero *)
(* limb, zero is the empty sequence.                                       *)
(***************************************************************************)
LimbBits == 14 + 1
LimbBase == 2^LimbBits

Pow2(n) == 2^n

Limb(a, i) == IF i <= Len(a) THEN a[i] ELSE 0

RECURSIVE BNorm(_)
BNorm(a) ==
    IF a = <<>> THEN <<>>
    ELSE IF a[Len(a)] = 0 THEN BNorm(SubSeq(a, 1, Len(a) - 1))
    ELSE a

BFromInt(n) ==
    BNorm(<<n % LimbBase, (n \div LimbBase) % LimbBase, n \div (LimbBase * LimbBase)>>)

RECURSIVE BToIntFrom(_, _)
BToIntFrom(a, i) ==
    IF i > Len(a) THEN 0 ELSE a[i] + LimbBase * BToIntFrom(a, i + 1)

\* Only for values known to be below 2^31.
BToInt(a) == BToIntFrom(a, 1)

RECURSIVE BAddFrom(_, _, _, _, _)
BAddFrom(a, b, i, carry, acc) ==
    IF i > Len(a) /\ i > Len(b)
    THEN IF carry > 0 THEN Append(acc, carry) ELSE acc
    ELSE LET s == Limb(a, i) + Limb(b, i) + carry
         IN  BAddFrom(a, b, i + 1, s \div LimbBase, Append(acc, s % LimbBase))

BAdd(a, b) == BAddFrom(a, b, 1, 0, <<>>)

RECURSIVE BSubFrom(_, _, _, _, _)
BSubFrom(a, b, i, borrow, acc) ==
    IF i > Len(a) THEN acc
    ELSE LET d == Limb(a, i) - Limb(b, i) - borrow
         IN  IF d < 0
             THEN BSubFrom(a, b, i + 1, 1, Append(acc, d + LimbBase))
             ELSE BSubFrom(a, b, i + 1, 0, Append(acc, d))

\* a - b, for a >= b.
BSub(a, b) == BNorm(BSubFrom(a, b, 1, 0, <<>>))

RECURSIVE BCmpFrom(_, _, _)
BCmpFrom(a, b, i) ==
    IF i = 0 THEN 0
    ELSE IF a[i] < b[i] THEN -1
    ELSE IF a[i] > b[i] THEN 1
    ELSE BCmpFrom(a, b, i - 1)

\* -1, 0 or 1 as a < b, a = b, a > b.
BCmp(a, b) ==
    IF Len(a) < Len(b) THEN -1
    ELSE IF Len(a) > Len(b) THEN 1
    ELSE BCmpFrom(a, b, Len(a))

RECURSIVE BMulSmallFrom(_, _, _, _, _)
BMulSmallFrom(a, k, i, carry, acc) ==
    IF i > Len(a)
    THEN IF carry > 0 THEN Append(acc, carry) ELSE acc
    ELSE LET p == a[i] * k + carry
         IN  BMulSmallFrom(a, k, i + 1, p \div LimbBase, Append(acc, p % LimbBase))

\* a * k, for 0 <= k <= LimbBase.
BMulSmall(a, k) == IF k = 0 THEN <<>> ELSE BMulSmallFrom(a, k, 1, 0, <<>>)

BShlLimbs(a, n) == IF a = <<>> THEN <<>> ELSE [i \in 1..n |-> 0] \o a

RECURSIVE BMulFrom(_, _, _, _)
BMulFrom(a, b, i, acc) ==
    IF i > Len(a) THEN acc
    ELSE IF a[i] = 0 THEN BMulFrom(a, b, i + 1, acc)
    ELSE BMulFrom(a, b, i + 1, BAdd(acc, BShlLimbs(BMulSmall(b, a[i]), i - 1)))

\* a * b, one limb of a at a time.
BMul(a, b) == BMulFrom(a, b, 1, <<>>)

RECURSIVE BDivSmallFrom(_, _, _, _, _)
BDivSmallFrom(a, d, i, rem, acc) ==
    IF i = 0 THEN [q |-> BNorm(acc), r |-> rem]
    ELSE LET cur == rem * LimbBase + a[i]
         IN  BDivSmallFrom(a, d, i - 1, cur % d, <<cur \div d>> \o acc)

\* Quotient and remainder of a by d, for 0 < d <= LimbBase.
BDivSmall(a, d) == BDivSmallFrom(a, d, Len(a), 0, <<>>)

\* a * 2^n
BShl(a, n) == BShlLimbs(BMulSmall(a, Pow2(n % LimbBits)), n \div LimbBits)

\* floor(a / 2^n)
BShr(a, n) ==
    LET k == n \div LimbBits
    IN  IF k >= Len(a) THEN <<>>
        ELSE BDivSmall(SubSeq(a, k + 1, Len(a)), Pow2(n % LimbBits)).q

RECURSIVE IntBitLen(_)
IntBitLen(n) == IF n = 0 THEN 0 ELSE 1 + IntBitLen(n \div 2)

BBitLen(a) ==
    IF a = <<>> THEN 0 ELSE LimbBits * (Len(a) - 1) + IntBitLen(a[Len(a)])

BIsOdd(a) == a # <<>> /\ a[1] % 2 = 1

\* The integer nearest a / 2^n, ties to even.
BShrRound(a, n) ==
    IF n = 0 THEN a
    ELSE LET q    == BShr(a, n)
             rem  == BSub(a, BShl(q, n))
             half == BShl(<<1>>, n - 1)
             c    == BCmp(rem, half)
         IN  IF c > 0 \/ (c = 0 /\ BIsOdd(q)) THEN BAdd(q, <<1>>) ELSE q

(***************************************************************************)
(* binary64.  A float is [s, m, e] with value (-1)^s * m * 2^e, where m is *)
(* zero (then e = 0) or has exactly DBL_MANT_DIG bits.                     *)
(***************************************************************************)
DBL_MANT_DIG == 52 + 1

\* The float nearest (-1)^s * n * 2^e, ties to even.
FRound(s, n, e) ==
    LET len == BBitLen(n)
    IN  IF len = 0 THEN [s |-> s, m |-> <<>>, e |-> 0]
        ELSE IF len <= DBL_MANT_DIG
        THEN [s |-> s, m |-> BShl(n, DBL_MANT_DIG - len), e |-> e - (DBL_MANT_DIG - len)]
        ELSE LET sh == len - DBL_MANT_DIG
                 q  == BShrRound(n, sh)
             IN  IF BBitLen(q) > DBL_MANT_DIG
                 THEN [s |-> s, m |-> BShr(q, 1), e |-> e + sh + 1]
                 ELSE [s |-> s, m |-> q, e |-> e + sh]

FZero == [s |-> 0, m |-> <<>>, e |-> 0]

FIsZero(a) == a.m = <<>>

\* float(n) of a Python int (exact for the small integers used here).
FFromInt(n) == IF n < 0 THEN FRound(1, BFromInt(-n), 0) ELSE FRound(0, BFromInt(n), 0)

FNeg(a) == [a EXCEPT !.s = 1 - a.s]

FMul(a, b) ==
    LET s == (a.s + b.s) % 2
    IN  IF FIsZero(a) \/ FIsZero(b) THEN [s |-> s, m |-> <<>>, e |-> 0]
        ELSE FRound(s, BMul(a.m, b.m), a.e + b.e)

\* The significands of a and b over their common (smaller) exponent.
FAlignedExp(a, b) ==
    IF FIsZero(a) THEN b.e ELSE IF FIsZero(b) THEN a.e
    ELSE IF a.e < b.e THEN a.e ELSE b.e

FAligned(a, e) == IF FIsZero(a) THEN <<>> ELSE BShl(a.m, a.e - e)

\* -1, 0 or 1 as |a| < |b|, |a| = |b|, |a| > |b|.
FCmpMag(a, b) ==
    LET e == FAlignedExp(a, b) IN BCmp(FAligned(a, e), FAligned(b, e))

FAdd(a, b) ==
    LET e  == FAlignedExp(a, b)
        am == FAligned(a, e)
        bm == FAligned(b, e)
        c  == BCmp(am, bm)
    IN  IF a.s = b.s THEN FRound(a.s, BAdd(am, bm), e)
        ELSE IF c = 0 THEN FZero
        ELSE IF c > 0 THEN FRound(a.s, BSub(am, bm), e)
        ELSE FRound(b.s, BSub(bm, am), e)

FSub(a, b) == FAdd(a, FNeg(b))

\* a < b, a = b and a >= b as IEEE compares them (-0.0 = 0.0).
FLt(a, b) ==
    IF FIsZero(a) /\ FIsZero(b) THEN FALSE
    ELSE IF a.s # b.s THEN a.s = 1 /\ ~(FIsZero(a) /\ FIsZero(b))
    ELSE IF a.s = 0 THEN FCmpMag(a, b) < 0
    ELSE FCmpMag(a, b) > 0

FEq(a, b) == (FIsZero(a) /\ FIsZero(b)) \/ a = b

FGe(a, b) == ~FLt(a, b)

\* The float nearest a / d, for a float a and an integer 0 < d <= LimbBase.
FDivSmall(a, d) ==
    LET extra == LimbBits + 2
        qr    == BDivSmall(BShl(a.m, extra), d)
        \* a sticky bit keeps what the remainder says about the tie
        sticky == BAdd(BShl(qr.q, 1), IF qr.r = 0 THEN <<>> ELSE <<1>>)
    IN  FRound(a.s, sticky, a.e - (extra + 1))

\* The float nearest n / d, for integers 0 <= n < 2^30 and 0 < d <= LimbBase:
\* the value of the decimal literal that writes n / d (d a power of ten).
FQuot(n, d) == FDivSmall(FFromInt(n), d)

\* A formatter that drops the digits after the second instead of rounding.
FHundredthsTruncated(a) ==
    IF FIsZero(a) THEN 0
    ELSE LET n == BMulSmall(a.m, 100)
         IN  BToInt(IF a.e >= 0 THEN BShl(n, a.e) ELSE BShr(n, -a.e))

\* The integer nearest 100 * |a|, ties to even: the digits of format(a, ".2f").
FHundredths(a) ==
    IF FIsZero(a) THEN 0
    ELSE LET n == BMulSmall(a.m, 100)
         IN  BToInt(IF a.e >= 0 THEN BShl(n, a.e) ELSE BShrRound(n, -a.e))


(***************************************************************************)
(* The program.                                                            *)
(***************************************************************************)
VARIABLES
    pc,                 \* "import": line 25 has run; "serving": app.run_server
    radiation_sources,  \* line 11: the reference table, in insertion order
    df,                 \* line 22: the table as the bar chart's data frame
    dose_values,        \* line 25
    lnt_risk,           \* line 26
    threshold_risk,     \* line 27
    hormesis_risk,      \* line 28
    flight_slider,      \* the value of dcc.Slider 'flight-slider'
    xray_slider,        \* the value of dcc.Slider 'xray-slider'
    total_dose_output,  \* the children of html.Div 'total-dose-output'
    request,            \* the callback request in flight: <<>> or <<inputs>>
    call,               \* update_dose's frame at its return: <<>> or <<locals>>
    events              \* slider events so far

vars == <<pc, radiation_sources, df, dose_values, lnt_risk, threshold_risk,
          hormesis_risk, flight_slider, xray_slider, total_dose_output,
          request, call, events>>

\* The table with the dental record left out.
RadiationSourcesWithoutDental ==
    << [name |-> "Background Radiation (Annual Avg)",  dose |-> FFromInt(3)],
       [name |-> "Chest X-ray",                        dose |-> FQuot(1, 10)],
       [name |-> "Mammogram",                          dose |-> FQuot(4, 10)],
       [name |-> "CT Scan (Abdomen)",                  dose |-> FFromInt(8)],
       [name |-> "Flight (NYC to LA)",                 dose |-> FQuot(4, 100)],
       [name |-> "Smoking (1 pack/day, Annual)",       dose |-> FFromInt(70)],
       [name |-> "Fukushima Evacuation Zone (Annual)", dose |-> FFromInt(12)] >>

\* Lines 11-20.  A Python dict keeps insertion order.
RadiationSources ==
    << [name |-> "Background Radiation (Annual Avg)",  dose |-> FFromInt(3)],
       [name |-> "Chest X-ray",                        dose |-> FQuot(1, 10)],
       [name |-> "Dental X-ray",                       dose |-> FQuot(5, 1000)],
       [name |-> "Mammogram",                          dose |-> FQuot(4, 10)],
       [name |-> "CT Scan (Abdomen)",                  dose |-> FFromInt(8)],
       [name |-> "Flight (NYC to LA)",                 dose |-> FQuot(4, 100)],
       [name |-> "Smoking (1 pack/day, Annual)",       dose |-> FFromInt(70)],
       [name |-> "Fukushima Evacuation Zone (Annual)", dose |-> FFromInt(12)] >>

\* Line 22: pd.DataFrame(list(d.items()), columns=["Source", "Dose (mSv)"]).
DataFrame(items) ==
    [i \in 1..Len(items) |-> [Source |-> items[i].name, Dose |-> items[i].dose]]

\* Line 25: the arguments of np.linspace.
DoseStart == 0
DoseStop == 100
DoseNum == 100

\* np.linspace with endpoint=False: the step divides by num and the last
\* sample is left where the step puts it.
LinspaceNoEndpoint(start, stop, num) ==
    LET delta == FSub(FFromInt(stop), FFromInt(start))
        step  == FDivSmall(delta, num)
    IN  [i \in 1..num |-> FAdd(FMul(FFromInt(i - 1), step), FFromInt(start))]

\* np.linspace(start, stop, num), endpoint=True: arange(num) * step + start
\* with step = (stop - start) / (num - 1), then the last sample set to stop.
Linspace(start, stop, num) ==
    LET delta == FSub(FFromInt(stop), FFromInt(start))
        step  == FDivSmall(delta, num - 1)
    IN  [i \in 1..num |->
            IF i = num THEN FFromInt(stop)
            ELSE FAdd(FMul(FFromInt(i - 1), step), FFromInt(start))]

\* Line 25.
DoseValues == Linspace(DoseStart, DoseStop, DoseNum)

\* The breakpoint of both piecewise curves, lines 27 and 28.
Breakpoint == 10

\* The float literals of lines 26-29 and 197.
Lit_0_01 == FQuot(1, 100)
Lit_0_005 == FQuot(5, 1000)
Lit_0_05 == FQuot(5, 100)
Lit_0_04 == FQuot(4, 100)
Lit_0_1 == FQuot(1, 10)
Lit_10 == FFromInt(Breakpoint)

\* Line 26: dose_values * 0.01, at one sample.
LntRisk(x) == FMul(x, Lit_0_01)

\* Lines 27 and 29 (last lambda): lambda x: (x - 10) * 0.01
AboveThreshold(x) == FMul(FSub(x, Lit_10), Lit_0_01)

\* The left branch with its signs exchanged: 0.005 * x - 0.05.
HormesisLowSignsExchanged(x) == FAdd(FMul(Lit_0_005, x), FNeg(Lit_0_05))

\* Line 29 (first lambda): lambda x: -0.005 * x + 0.05
HormesisLow(x) == FAdd(FMul(FNeg(Lit_0_005), x), Lit_0_05)

\* np.piecewise at one sample: the output starts as zero and each branch
\* whose condition holds overwrites it, in the order of the lists.
Piecewise(conds, vals) ==
    LET RECURSIVE Fill(_, _)
        Fill(i, y) == IF i > Len(conds) THEN y
                      ELSE Fill(i + 1, IF conds[i] THEN vals[i] ELSE y)
    IN  Fill(1, FZero)

\* The Threshold curve without the subtraction of the breakpoint.
ThresholdRiskFromZero(x) ==
    Piecewise(<<FLt(x, Lit_10), FGe(x, Lit_10)>>, <<FFromInt(0), LntRisk(x)>>)

\* Line 27, at one sample.
ThresholdRisk(x) ==
    Piecewise(<<FLt(x, Lit_10), FGe(x, Lit_10)>>, <<FFromInt(0), AboveThreshold(x)>>)

\* The Hormesis curve with its two branches exchanged.
HormesisRiskBranchesExchanged(x) ==
    Piecewise(<<FLt(x, Lit_10), FGe(x, Lit_10)>>, <<AboveThreshold(x), HormesisLow(x)>>)

\* Lines 28-29, at one sample.
HormesisRisk(x) ==
    Piecewise(<<FLt(x, Lit_10), FGe(x, Lit_10)>>, <<HormesisLow(x), AboveThreshold(x)>>)

\* Lines 100 and 102: dcc.Slider(min, max, step, value=...).
FlightMin == 0
FlightMax == 50
FlightInitial == 5
XrayMin == 0
XrayMax == 10
XrayInitial == 1

\* The total with the two unit doses exchanged.
TotalDoseUnitsExchanged(flights, xrays) ==
    FAdd(FMul(FFromInt(flights), Lit_0_1), FMul(FFromInt(xrays), Lit_0_04))

\* The total kept from the previous call when there was one.
TotalDoseRemembered(flights, xrays) ==
    IF call # <<>> THEN call[1].total_dose
    ELSE FAdd(FMul(FFromInt(flights), Lit_0_04), FMul(FFromInt(xrays), Lit_0_1))

\* Line 197.
TotalDose(flights, xrays) ==
    FAdd(FMul(FFromInt(flights), Lit_0_04), FMul(FFromInt(xrays), Lit_0_1))

\* format(a, ".2f"): the decimal nearest a with two places, ties to even.
Format2f(a) ==
    LET h == FHundredths(a)
    IN  (IF a.s = 1 THEN "-" ELSE "") \o ToString(h \div 100) \o "."
        \o ToString((h \div 10) % 10) \o ToString(h % 10)

\* Line 198.
DoseText(total_dose) ==
    "Your estimated annual radiation dose from selected activities: "
    \o Format2f(total_dose) \o " mSv"

(***************************************************************************)
(* Bounds of the model.                                                    *)
(***************************************************************************)
MaxEvents == 2          \* slider events in one behaviour
MaxCount == 60          \* largest count handed to update_dose directly
MaxNegCount == 3        \* most negative count handed to update_dose directly
MaxDoseTenths == 1100   \* largest dose evaluated, in tenths of a mSv
MaxNegDoseTenths == 20  \* most negative dose evaluated, in tenths of a mSv

\* The inputs of a callback request, and the frame update_dose leaves.
Inputs(f, x) == [flights |-> f, xrays |-> x]
Frame(f, x, t) == [flights |-> f, xrays |-> x, total_dose |-> t]

(***************************************************************************)
(* Actions.                                                                *)
(***************************************************************************)
\* Lines 26-29: the three curves over dose_values, sample by sample.
EvaluateModels ==
    /\ pc = "import"
    /\ lnt_risk' = [i \in 1..Len(dose_values) |-> LntRisk(dose_values[i])]
    /\ threshold_risk' = [i \in 1..Len(dose_values) |-> ThresholdRisk(dose_values[i])]
    /\ hormesis_risk' = [i \in 1..Len(dose_values) |-> HormesisRisk(dose_values[i])]
    /\ pc' = "serving"
    /\ UNCHANGED <<radiation_sources, df, dose_values, flight_slider, xray_slider,
                   total_dose_output, request, call, events>>

\* A browser has loaded the page: a request is in flight or has been served.
PageLoaded == request # <<>> \/ call # <<>>

\* The page is loaded: Dash calls every callback once with the initial values
\* of its inputs (prevent_initial_call is left at its default).
PageLoad ==
    /\ pc = "serving"
    /\ ~PageLoaded
    /\ request' = <<Inputs(flight_slider, xray_slider)>>
    /\ UNCHANGED <<pc, radiation_sources, df, dose_values, lnt_risk, threshold_risk,
                   hormesis_risk, flight_slider, xray_slider, total_dose_output,
                   call, events>>

\* The user moves 'flight-slider' to v: Dash sends the callback both inputs.
FlightSliderChange(v) ==
    /\ pc = "serving"
    /\ PageLoaded
    /\ events < MaxEvents
    /\ v # flight_slider
    /\ flight_slider' = v
    /\ request' = <<Inputs(v, xray_slider)>>
    /\ events' = events + 1
    /\ UNCHANGED <<pc, radiation_sources, df, dose_values, lnt_risk, threshold_risk,
                   hormesis_risk, xray_slider, total_dose_output, call>>

\* The user moves 'xray-slider' to v.
XraySliderChange(v) ==
    /\ pc = "serving"
    /\ PageLoaded
    /\ events < MaxEvents
    /\ v # xray_slider
    /\ xray_slider' = v
    /\ request' = <<Inputs(flight_slider, v)>>
    /\ events' = events + 1
    /\ UNCHANGED <<pc, radiation_sources, df, dose_values, lnt_risk, threshold_risk,
                   hormesis_risk, flight_slider, total_dose_output, call>>

\* Lines 192-198: Dash runs update_dose on the request's inputs and sets the
\* children of 'total-dose-output' to what it returns.
UpdateDose ==
    /\ pc = "serving"
    /\ request # <<>>
    /\ LET flights    == request[1].flights
           xrays      == request[1].xrays
           total_dose == TotalDose(flights, xrays)
       IN  /\ total_dose_output' = DoseText(total_dose)
           /\ call' = <<Frame(flights, xrays, total_dose)>>
    /\ request' = <<>>
    /\ UNCHANGED <<pc, radiation_sources, df, dose_values, lnt_risk, threshold_risk,
                   hormesis_risk, flight_slider, xray_slider, events>>

(***************************************************************************)
(* Spec: the application.  The module is imported (the table is built,     *)
(* the dose range is laid out, the layout declares the sliders at their    *)
(* initial values), the curves are evaluated and the server starts; the    *)
(* page is loaded, which asks for the callback with the initial values.  A *)
(* slider event replaces a request not yet served: the page shows only the *)
(* answer to the latest one.                                               *)
(***************************************************************************)
Imported ==
    /\ radiation_sources = RadiationSources
    /\ df = DataFrame(RadiationSources)
    /\ flight_slider = FlightInitial
    /\ xray_slider = XrayInitial
    /\ total_dose_output = ""
    /\ call = <<>>
    /\ events = 0

Init ==
    /\ Imported
    /\ pc = "import"
    /\ dose_values = DoseValues
    /\ lnt_risk = <<>>
    /\ threshold_risk = <<>>
    /\ hormesis_risk = <<>>
    /\ request = <<>>

Next ==
    \/ EvaluateModels
    \/ PageLoad
    \/ \E v \in FlightMin..FlightMax : FlightSliderChange(v)
    \/ \E v \in XrayMin..XrayMax : XraySliderChange(v)
    \/ UpdateDose

Spec == Init /\ [][Next]_vars

(***************************************************************************)
(* SpecModels: lines 26-29 as a function of the dose, applied to one dose  *)
(* at a time over a grid of tenths of a mSv on both sides of zero and over *)
(* the samples of the program's own range, and to that range as a whole.   *)
(***************************************************************************)
Tenths(k) == IF k < 0 THEN FNeg(FQuot(-k, 10)) ELSE FQuot(k, 10)

DoseInputs ==
    {Tenths(k) : k \in -MaxNegDoseTenths..MaxDoseTenths}
    \cup {DoseValues[i] : i \in 1..DoseNum}

InitModels ==
    /\ Imported
    /\ pc = "import"
    /\ dose_values \in {<<d>> : d \in DoseInputs} \cup {DoseValues}
    /\ lnt_risk = <<>>
    /\ threshold_risk = <<>>
    /\ hormesis_risk = <<>>
    /\ request = <<>>

NextModels == EvaluateModels

SpecModels == InitModels /\ [][NextModels]_vars

(***************************************************************************)
(* SpecCallback: update_dose as a function of its two arguments, applied   *)
(* to every pair of counts in -MaxNegCount..MaxCount: the callback is      *)
(* reachable with any pair of integers, whatever the sliders allow.        *)
(***************************************************************************)
CountInputs == -MaxNegCount..MaxCount

InitCallback ==
    /\ Imported
    /\ pc = "serving"
    /\ dose_values = DoseValues
    /\ lnt_risk = [i \in 1..DoseNum |-> LntRisk(DoseValues[i])]
    /\ threshold_risk = [i \in 1..DoseNum |-> ThresholdRisk(DoseValues[i])]
    /\ hormesis_risk = [i \in 1..DoseNum |-> HormesisRisk(DoseValues[i])]
    /\ request \in {<<Inputs(f, x)>> : f \in CountInputs, x \in CountInputs}

NextCallback == UpdateDose

SpecCallback == InitCallback /\ [][NextCallback]_vars

(***************************************************************************)
(* What the properties below read.                                         *)
(***************************************************************************)
\* update_dose has returned.
Returned == call # <<>>

\* The callback has answered the latest request.
Answered == pc = "serving" /\ request = <<>> /\ call # <<>>

\* The curves have been evaluated.
Evaluated == pc = "serving"

NonNegative(a) == ~FLt(a, FZero)

\* h hundredths written with two decimals, as a reader writes (4f + 10x)/100.
Decimal2(h) ==
    ToString(h \div 100) \o "." \o ToString((h \div 10) % 10) \o ToString(h % 10)

\* The total of f flights and x chest X-rays in hundredths of a mSv, exactly.
ExactHundredths(f, x) == 4 * f + 10 * x

\* |a - b| <= k units in the last place of b.
WithinUlps(a, b, k) ==
    IF FIsZero(b) THEN FIsZero(a)
    ELSE /\ a.s = b.s
         /\ LET e  == FAlignedExp(a, b)
                am == FAligned(a, e)
                bm == FAligned(b, e)
                d  == IF BCmp(am, bm) >= 0 THEN BSub(am, bm) ELSE BSub(bm, am)
            IN  BCmp(d, BShl(BFromInt(k), b.e - e)) <= 0

(***************************************************************************)
(* C1 (as amended): for every pair of non-negative counts the model        *)
(* reaches, the text update_dose returns is "Your estimated annual         *)
(* radiation dose from selected activities: V mSv" where V is exactly      *)
(* (4*flights + 10*xrays)/100 written with two decimals; the float it      *)
(* formats is within two units in the last place of the float nearest      *)
(* that value, is 0.0 at (0,0) and 3.0 at (50,10).                         *)
(***************************************************************************)
C1_TextIsExactTotal ==
    (Returned /\ call[1].flights >= 0 /\ call[1].xrays >= 0) =>
        LET f == call[1].flights
            x == call[1].xrays
            t == call[1].total_dose
        IN  /\ total_dose_output =
                 "Your estimated annual radiation dose from selected activities: "
                 \o Decimal2(ExactHundredths(f, x)) \o " mSv"
            /\ WithinUlps(t, FQuot(ExactHundredths(f, x), 100), 2)
            /\ (f = 0 /\ x = 0 => t = FZero)
            /\ (f = 50 /\ x = 10 => t = FFromInt(3))

\* update_dose(5, 1) has returned: its float is 0.30000000000000004, one
\* unit in the last place above 0.3, and the text says 0.30.
C1_Witness ==
    /\ Returned /\ call[1].flights = 5 /\ call[1].xrays = 1
    /\ call[1].total_dose # FQuot(30, 100)
    /\ WithinUlps(call[1].total_dose, FQuot(30, 100), 1)
    /\ total_dose_output =
         "Your estimated annual radiation dose from selected activities: 0.30 mSv"

\* C1 as stated: the total is flights x 0.04 + xrays x 0.1 exactly, so that
\* update_dose(5, 1) computes exactly 0.30 (the float written 0.30).
C1_TotalIsExact ==
    (Returned /\ call[1].flights >= 0 /\ call[1].xrays >= 0) =>
        FEq(call[1].total_dose,
            FQuot(ExactHundredths(call[1].flights, call[1].xrays), 100))

(***************************************************************************)
(* C2: update_dose called with a negative count fails with InvalidInput:   *)
(* it does not return, and no dose text is produced.                       *)
(***************************************************************************)
C2_NegativeCountRejected ==
    /\ Returned => (call[1].flights >= 0 /\ call[1].xrays >= 0)
    /\ (request # <<>> /\ (request[1].flights < 0 \/ request[1].xrays < 0))
           => total_dose_output = ""

(***************************************************************************)
(* C3: at every dose x >= 0 the Threshold curve is 0 when x < 10 and       *)
(* 0.01 * (x - 10) when x >= 10, and it is 0 at x = 10.                    *)
(***************************************************************************)
C3_Threshold ==
    Evaluated =>
        \A i \in 1..Len(dose_values) :
            LET x == dose_values[i]
                r == threshold_risk[i]
            IN  NonNegative(x) =>
                    /\ FLt(x, FFromInt(10)) => r = FZero
                    /\ FGe(x, FFromInt(10)) => r = FMul(FQuot(1, 100), FSub(x, FFromInt(10)))
                    /\ x = FFromInt(10) => r = FZero

\* The curve has been evaluated at 10 mSv and just above it.
C3_Witness ==
    /\ Evaluated
    /\ \/ dose_values = <<FFromInt(10)>> /\ threshold_risk = <<FZero>>
       \/ dose_values = <<Tenths(101)>> /\ ~FIsZero(threshold_risk[1])

(***************************************************************************)
(* C4: at every dose x >= 0 the Hormesis curve is -0.005*x + 0.05 when     *)
(* x < 10 and 0.01 * (x - 10) when x >= 10; it is 0.05 at x = 0, and both  *)
(* branches give 0 at x = 10.                                              *)
(***************************************************************************)
C4_Hormesis ==
    /\ HormesisLow(FFromInt(10)) = FZero
    /\ AboveThreshold(FFromInt(10)) = FZero
    /\ Evaluated =>
        \A i \in 1..Len(dose_values) :
            LET x == dose_values[i]
                r == hormesis_risk[i]
            IN  NonNegative(x) =>
                    /\ FLt(x, FFromInt(10)) =>
                           r = FAdd(FMul(FNeg(FQuot(5, 1000)), x), FQuot(5, 100))
                    /\ FGe(x, FFromInt(10)) => r = FMul(FQuot(1, 100), FSub(x, FFromInt(10)))
                    /\ FIsZero(x) => r = FQuot(5, 100)
                    /\ x = FFromInt(10) => r = FZero

\* The curve has been evaluated at 9.9 mSv, the grid's last dose on the left
\* branch, where it is small and positive.
C4_Witness ==
    /\ Evaluated
    /\ dose_values = <<Tenths(99)>>
    /\ FLt(FZero, hormesis_risk[1])
    /\ FLt(hormesis_risk[1], FQuot(1, 1000))

(***************************************************************************)
(* C5: the Hormesis curve is non-negative at every dose x >= 0, on either  *)
(* branch.                                                                 *)
(***************************************************************************)
C5_HormesisNonNegative ==
    Evaluated =>
        \A i \in 1..Len(dose_values) :
            NonNegative(dose_values[i]) => NonNegative(hormesis_risk[i])

\* The left branch has been evaluated at its lowest point on the grid.
C5_Witness ==
    /\ Evaluated
    /\ dose_values = <<Tenths(99)>>
    /\ NonNegative(hormesis_risk[1])
    /\ hormesis_risk[1] = HormesisLow(Tenths(99))

(***************************************************************************)
(* C6: over linspace(0, 100, 100) the three curves have 100 samples each,  *)
(* one per dose; the first dose is 0 and the last is 100; LNT is 0.01 * x  *)
(* at every sample and 1.0 at the last.                                    *)
(***************************************************************************)
C6_DefaultRange ==
    (Evaluated /\ dose_values = DoseValues) =>
        /\ Len(dose_values) = 100
        /\ Len(lnt_risk) = 100
        /\ Len(threshold_risk) = 100
        /\ Len(hormesis_risk) = 100
        /\ dose_values[1] = FZero
        /\ dose_values[100] = FFromInt(100)
        /\ \A i \in 1..100 : lnt_risk[i] = FMul(FQuot(1, 100), dose_values[i])
        /\ lnt_risk[100] = FFromInt(1)
        /\ \A i \in 1..99 : FLt(dose_values[i], dose_values[i + 1])

\* The curves have been evaluated over the default range.
C6_Witness ==
    /\ Evaluated
    /\ dose_values = DoseValues
    /\ Len(dose_values) = 100
    /\ lnt_risk # <<>>
    /\ lnt_risk[100] = FFromInt(1)

(***************************************************************************)
(* C7: the reference table has exactly 8 records with unique non-empty     *)
(* names and positive doses, "Smoking (1 pack/day, Annual)" at 70.0 and    *)
(* "Dental X-ray" at 0.005, and it is the table built at start in every    *)
(* reachable state.                                                        *)
(***************************************************************************)
C7_ReferenceTable ==
    /\ Len(radiation_sources) = 8
    /\ \A i \in 1..Len(radiation_sources) :
           /\ radiation_sources[i].name # ""
           /\ FLt(FZero, radiation_sources[i].dose)
           /\ \A j \in 1..Len(radiation_sources) :
                  radiation_sources[i].name = radiation_sources[j].name => i = j
    /\ \E i \in 1..Len(radiation_sources) :
           /\ radiation_sources[i].name = "Smoking (1 pack/day, Annual)"
           /\ radiation_sources[i].dose = FFromInt(70)
    /\ \E i \in 1..Len(radiation_sources) :
           /\ radiation_sources[i].name = "Dental X-ray"
           /\ radiation_sources[i].dose = Lit_0_005
    /\ radiation_sources = RadiationSources
    /\ df = DataFrame(radiation_sources)

\* The curves have been evaluated, both sliders moved and the callback run.
C7_Witness ==
    /\ Evaluated /\ Returned /\ events = MaxEvents
    /\ flight_slider # FlightInitial /\ xray_slider # XrayInitial
    /\ Len(radiation_sources) = 8

(***************************************************************************)
(* C9: once the callback has answered the latest slider event, the text    *)
(* shown is the total of the sliders' current values alone, whatever came  *)
(* before; and a step of the callback changes nothing but that text (and   *)
(* its own frame).                                                         *)
(***************************************************************************)
C9_DisplayFollowsSliders ==
    /\ [](Answered =>
            /\ total_dose_output =
                 "Your estimated annual radiation dose from selected activities: "
                 \o Decimal2(ExactHundredths(flight_slider, xray_slider)) \o " mSv"
            /\ call[1].flights = flight_slider
            /\ call[1].xrays = xray_slider)
    /\ [][(request # <<>> /\ request' = <<>>) =>
            UNCHANGED <<pc, radiation_sources, df, dose_values, lnt_risk,
                        threshold_risk, hormesis_risk, flight_slider, xray_slider,
                        events>>]_vars

\* Two slider events after an earlier answer, and the callback has answered.
C9_Witness ==
    /\ Answered /\ events = MaxEvents
    /\ flight_slider = 0 /\ xray_slider = 0
    /\ total_dose_output =
         "Your estimated annual radiation dose from selected activities: 0.00 mSv"

(***************************************************************************)
(* C10: whatever the sliders produce (flights in 0..50, chest X-rays in    *)
(* 0..10), the callback's inputs are valid counts, and the total lies in   *)
(* [0, 3.0], is 0 only at (0,0), is 3.0 only at (50,10), and does not      *)
(* decrease when either count grows by one.                                *)
(***************************************************************************)
C10_SliderInputsInRange ==
    /\ request # <<>> =>
           /\ request[1].flights \in 0..50
           /\ request[1].xrays \in 0..10
    /\ Returned => (call[1].flights \in 0..50 /\ call[1].xrays \in 0..10)
    /\ Answered =>
           LET f == call[1].flights
               x == call[1].xrays
               t == call[1].total_dose
           IN  /\ f = flight_slider /\ x = xray_slider
               /\ NonNegative(t)
               /\ FGe(FFromInt(3), t)
               /\ FIsZero(t) <=> (f = 0 /\ x = 0)
               /\ t = FFromInt(3) <=> (f = 50 /\ x = 10)
               /\ FHundredths(t) = 300 <=> (f = 50 /\ x = 10)
               /\ f < 50 => FGe(TotalDose(f + 1, x), t)
               /\ x < 10 => FGe(TotalDose(f, x + 1), t)

\* The callback has run at the top of both sliders.
C10_Witness ==
    /\ Returned /\ call[1].flights = 50 /\ call[1].xrays = 10
    /\ call[1].total_dose = FFromInt(3)
    /\ total_dose_output =
         "Your estimated annual radiation dose from selected activities: 3.00 mSv"

====
